---- MODULE Spec2Model ----
(***************************************************************************)
(* Image-reference resolution protocol of the kitchen CDK project:         *)
(*   - scripts/resolve-image-digests.sh  (the Digest Resolver)             *)
(*   - src/shared/image-reference-loader.ts  (the Reference Loader)        *)
(*   - the Lambda constructs that hand the Loader's answer to CDK.         *)
(*                                                                         *)
(* Strings are sequences of one-character strings, so that the regular     *)
(* expressions, the case conversions and the suffix stripping of the code  *)
(* are computed and not assumed.  The manifest file is a sequence of JSON  *)
(* tokens; JSON.parse is a parser over it.                                 *)
(***************************************************************************)
EXTENDS Integers, Sequences, FiniteSets, TLC

(***************************************************************************)
(* Characters and strings                                                  *)
(***************************************************************************)
LOWER == <<"a","b","c","d","e","f","g","h","i","j","k","l","m",
           "n","o","p","q","r","s","t","u","v","w","x","y","z">>

UPPER == <<"A","B","C","D","E","F","G","H","I","J","K","L","M",
           "N","O","P","Q","R","S","T","U","V","W","X","Y","Z">>

DIGITS == <<"0","1","2","3","4","5","6","7","8","9">>

Range(f) == {f[i] : i \in DOMAIN f}

Rep(c, n) == [i \in 1..n |-> c]

EndsWith(s, suffix) ==
  /\ Len(s) >= Len(suffix)
  /\ SubSeq(s, Len(s) - Len(suffix) + 1, Len(s)) = suffix

\* String.prototype.toUpperCase, character by character.
toUpperCaseChar(c) ==
  IF \E i \in DOMAIN LOWER : LOWER[i] = c
  THEN UPPER[CHOOSE i \in DOMAIN LOWER : LOWER[i] = c]
  ELSE c

toUpperCase(s) == [i \in 1..Len(s) |-> toUpperCaseChar(s[i])]

\* bash ${x,,}, character by character.
toLowerCaseChar(c) ==
  IF \E i \in DOMAIN UPPER : UPPER[i] = c
  THEN LOWER[CHOOSE i \in DOMAIN UPPER : UPPER[i] = c]
  ELSE c

toLowerCase(s) == [i \in 1..Len(s) |-> toLowerCaseChar(s[i])]

\* String constants of the two programs.
IMAGE_TAG_SUFFIX == <<"_","I","M","A","G","E","_","T","A","G">>

SHA256_PREFIX == <<"s","h","a","2","5","6",":">>

LATEST == <<"l","a","t","e","s","t">>

NONE_TEXT == <<"N","o","n","e">>

MANIFEST_NAME == <<"i","m","a","g","e","-","m","a","n","i","f","e","s","t",".","j","s","o","n">>

KEY_TAG == <<"t","a","g">>

KEY_DIGEST == <<"d","i","g","e","s","t">>

chef == <<"c","h","e","f">>

prepper == <<"p","r","e","p","p","e","r">>

\* Number of hex characters the digest pattern asks for.
DigestHexLen == 64

(***************************************************************************)
(* JSON text (tokens) and JavaScript values                                *)
(***************************************************************************)
Punct(c) == [k |-> "punct", s |-> <<c>>]

StringTok(v) == [k |-> "string", s |-> v]

NumberTok(v) == [k |-> "number", s |-> v]

LiteralTok(v) == [k |-> "literal", s |-> v]

\* Text that is no JSON token (a bare word, an unterminated string).
BadTok(v) == [k |-> "bad", s |-> v]

NoMembers == <<>>

Undefined == [t |-> "undefined", s |-> <<>>, m |-> NoMembers, a |-> <<>>]

JString(v) == [t |-> "string", s |-> v, m |-> NoMembers, a |-> <<>>]

JNumber(v) == [t |-> "number", s |-> v, m |-> NoMembers, a |-> <<>>]

TEXT_NULL == <<"n","u","l","l">>

TEXT_TRUE == <<"t","r","u","e">>

TEXT_FALSE == <<"f","a","l","s","e">>

JLiteral(v) ==
  IF v = TEXT_NULL
  THEN [t |-> "null", s |-> <<>>, m |-> NoMembers, a |-> <<>>]
  ELSE [t |-> "boolean", s |-> v, m |-> NoMembers, a |-> <<>>]

JObject(members) == [t |-> "object", s |-> <<>>, m |-> members, a |-> <<>>]

JArray(elements) == [t |-> "array", s |-> <<>>, m |-> NoMembers, a |-> elements]

\* The parser reads the tokens left to right with a stack of the objects and
\* arrays it is inside of.  mode: "value" (a value is expected), "after" (a
\* value has been read and is in val), "done", "fail".
ObjectFrame(members, key) == [kind |-> "object", m |-> members, key |-> key, a |-> <<>>]

ArrayFrame(elements) == [kind |-> "array", m |-> NoMembers, key |-> <<>>, a |-> elements]

ParseState(mode, ts, stack, val) == [mode |-> mode, ts |-> ts, stack |-> stack, val |-> val]

ParseFailed == ParseState("fail", <<>>, <<>>, Undefined)

Drop(ts, n) == SubSeq(ts, n + 1, Len(ts))

\* Whether the tokens start with "key" :
StartsWithKey(ts) == Len(ts) >= 2 /\ ts[1].k = "string" /\ ts[2] = Punct(":")

\* A value is expected at the head of the tokens.
ParseValueStep(st) ==
  IF st.ts = <<>> THEN ParseFailed
  ELSE LET h == Head(st.ts)
           r == Tail(st.ts)
       IN CASE h.k = "string" -> ParseState("after", r, st.stack, JString(h.s))
            [] h.k = "number" -> ParseState("after", r, st.stack, JNumber(h.s))
            [] h.k = "literal" /\ h.s \in {TEXT_NULL, TEXT_TRUE, TEXT_FALSE} ->
                 ParseState("after", r, st.stack, JLiteral(h.s))
            [] h = Punct("{") ->
                 IF r # <<>> /\ Head(r) = Punct("}")
                 THEN ParseState("after", Tail(r), st.stack, JObject(NoMembers))
                 ELSE IF StartsWithKey(r)
                 THEN ParseState("value", Drop(r, 2),
                                 Append(st.stack, ObjectFrame(NoMembers, r[1].s)), Undefined)
                 ELSE ParseFailed
            [] h = Punct("[") ->
                 IF r # <<>> /\ Head(r) = Punct("]")
                 THEN ParseState("after", Tail(r), st.stack, JArray(<<>>))
                 ELSE ParseState("value", r, Append(st.stack, ArrayFrame(<<>>)), Undefined)
            [] OTHER -> ParseFailed

\* A value has been read: it is the whole text, or a member of the object or
\* an element of the array on top of the stack.  A repeated key keeps the
\* last value.
ParseAfterStep(st) ==
  IF st.stack = <<>>
  THEN IF st.ts = <<>> THEN ParseState("done", <<>>, <<>>, st.val) ELSE ParseFailed
  ELSE LET top == st.stack[Len(st.stack)]
           below == SubSeq(st.stack, 1, Len(st.stack) - 1)
           members == [x \in (DOMAIN top.m) \cup {top.key} |->
                         IF x = top.key THEN st.val ELSE top.m[x]]
           elements == Append(top.a, st.val)
       IN IF st.ts = <<>> THEN ParseFailed
          ELSE IF top.kind = "object"
          THEN IF Head(st.ts) = Punct("}")
               THEN ParseState("after", Tail(st.ts), below, JObject(members))
               ELSE IF Head(st.ts) = Punct(",") /\ StartsWithKey(Tail(st.ts))
               THEN ParseState("value", Drop(st.ts, 3),
                               Append(below, ObjectFrame(members, st.ts[2].s)), Undefined)
               ELSE ParseFailed
          ELSE IF Head(st.ts) = Punct("]")
               THEN ParseState("after", Tail(st.ts), below, JArray(elements))
               ELSE IF Head(st.ts) = Punct(",")
               THEN ParseState("value", Tail(st.ts),
                               Append(below, ArrayFrame(elements)), Undefined)
               ELSE ParseFailed

RECURSIVE ParseRun(_)
ParseRun(st) ==
  IF st.mode \in {"done", "fail"} THEN st
  ELSE ParseRun(IF st.mode = "value" THEN ParseValueStep(st) ELSE ParseAfterStep(st))

ParseResult(st) == [ok |-> st.mode = "done", v |-> st.val]

\* JSON.parse: one value and nothing after it, else a SyntaxError.
JSONparse(ts) == ParseResult(ParseRun(ParseState("value", ts, <<>>, Undefined)))

(***************************************************************************)
(* Reference Loader: src/shared/image-reference-loader.ts                  *)
(***************************************************************************)
\* A file on disk: absent, present but unreadable, or present with content.
AbsentFile == [exists |-> FALSE, readable |-> FALSE, content |-> <<>>]

UnreadableFile == [exists |-> TRUE, readable |-> FALSE, content |-> <<>>]

FileWith(tokens) == [exists |-> TRUE, readable |-> TRUE, content |-> tokens]

\* Faulty variant: a test against undefined and null in place of truthiness.
TruthyNotNullish(val) == val.t \notin {"undefined", "null"}

\* JavaScript truthiness, as `if (digest)` and `||` test it.
Truthy(val) ==
  CASE val.t \in {"undefined", "null"} -> FALSE
    [] val.t = "string" -> val.s # <<>>
    [] val.t = "number" -> val.s # <<"0">>
    [] val.t = "boolean" -> val.s = TEXT_TRUE
    [] OTHER -> TRUE

\* Faulty variant: a name the object does not hold yields a member it does hold.
GetPropertyAnyMember(val, name) ==
  CASE val.t \in {"undefined", "null"} -> [threw |-> TRUE, v |-> Undefined]
    [] val.t = "object" /\ name \in DOMAIN val.m -> [threw |-> FALSE, v |-> val.m[name]]
    [] val.t = "object" /\ DOMAIN val.m # {} ->
         [threw |-> FALSE, v |-> val.m[CHOOSE k \in DOMAIN val.m : TRUE]]
    [] OTHER -> [threw |-> FALSE, v |-> Undefined]

\* val[name] for a name that is no built-in property: a TypeError on null and
\* undefined, the member of an object, undefined on everything else.
GetProperty(val, name) ==
  CASE val.t \in {"undefined", "null"} -> [threw |-> TRUE, v |-> Undefined]
    [] val.t = "object" /\ name \in DOMAIN val.m -> [threw |-> FALSE, v |-> val.m[name]]
    [] OTHER -> [threw |-> FALSE, v |-> Undefined]

\* Faulty variant: an entry without a digest yields its tag.
OptionalDigestOrTag(entry) ==
  IF entry.t \in {"undefined", "null"} THEN Undefined
  ELSE IF GetProperty(entry, KEY_DIGEST).v.t = "undefined"
  THEN GetProperty(entry, KEY_TAG).v
  ELSE GetProperty(entry, KEY_DIGEST).v

\* entry?.digest
OptionalDigest(entry) ==
  IF entry.t \in {"undefined", "null"} THEN Undefined
  ELSE GetProperty(entry, KEY_DIGEST).v

\* if (digest) { return digest; }
TryDigest(digest) ==
  IF Truthy(digest)
  THEN [outcome |-> "return", v |-> digest, err |-> ""]
  ELSE [outcome |-> "fallthrough", v |-> Undefined, err |-> ""]

\* const digest = manifest[repoName]?.digest, given the outcome of manifest[repoName]
TryEntry(entry) ==
  IF entry.threw
  THEN [outcome |-> "throw", v |-> Undefined, err |-> "TypeError"]
  ELSE TryDigest(OptionalDigest(entry.v))

\* const manifest = JSON.parse(...), given the outcome of the parse
TryParsed(parsed, repoName) ==
  IF ~parsed.ok
  THEN [outcome |-> "throw", v |-> Undefined, err |-> "SyntaxError"]
  ELSE TryEntry(GetProperty(parsed.v, repoName))

\* The body of the try block: read, parse, look the digest up.
TryBlock(file, repoName) ==
  IF ~file.readable
  THEN [outcome |-> "throw", v |-> Undefined, err |-> "Error: EACCES"]
  ELSE TryParsed(JSONparse(file.content), repoName)

\* console.warn(`Warning: Failed to parse image-manifest.json: ${err}`)
WarnMessage(err) ==
  [text |-> "Warning: Failed to parse", file |-> MANIFEST_NAME, err |-> err]

NoManifestStep == [outcome |-> "fallthrough", v |-> Undefined, warnings |-> <<>>]

\* Faulty variant: no catch clause, the error leaves the function.
CatchNothing(t) == [outcome |-> t.outcome, v |-> t.v, warnings |-> <<>>]

\* Faulty variant: the catch clause swallows the error without a warning.
CatchSilently(t) ==
  IF t.outcome = "throw" THEN NoManifestStep
  ELSE [outcome |-> t.outcome, v |-> t.v, warnings |-> <<>>]

\* try { ... } catch (err) { console.warn(...) }, given the outcome of the body
Catch(t) ==
  IF t.outcome = "throw"
  THEN [outcome |-> "fallthrough", v |-> Undefined, warnings |-> <<WarnMessage(t.err)>>]
  ELSE [outcome |-> t.outcome, v |-> t.v, warnings |-> <<>>]

\* if (fs.existsSync(manifestPath)) { try { ... } catch ... }
ManifestStep(file, repoName) ==
  IF ~file.exists THEN NoManifestStep ELSE Catch(TryBlock(file, repoName))

\* Faulty variant: the name is used as given, without upper-casing.
EnvVarNameAsGiven(repoName) == repoName \o IMAGE_TAG_SUFFIX

\* `${repoName.toUpperCase()}_IMAGE_TAG`
EnvVarName(repoName) == toUpperCase(repoName) \o IMAGE_TAG_SUFFIX

\* process.env[name]: a string, or undefined when the variable is not set.
EnvLookup(env, name) ==
  IF name \in DOMAIN env THEN JString(env[name]) ELSE Undefined

\* Faulty variant: the environment value is dropped, the default always returned.
OrLatestAlways(val) == JString(LATEST)

\* Faulty variant: `??` in place of `||`, an empty value is returned as it is.
OrLatestNullish(val) == IF val.t # "undefined" THEN val ELSE JString(LATEST)

\* value || 'latest'
OrLatest(val) == IF Truthy(val) THEN val ELSE JString(LATEST)

\* process.env[envVarName] || 'latest'
EnvFallback(env, repoName) == OrLatest(EnvLookup(env, EnvVarName(repoName)))

\* Faulty variant: the environment tier is consulted before the manifest.
ReturnEnvFirst(step, fallback) ==
  IF step.outcome = "throw"
  THEN [threw |-> TRUE, ret |-> Undefined, warnings |-> step.warnings]
  ELSE IF fallback.s # LATEST \/ step.outcome # "return"
  THEN [threw |-> FALSE, ret |-> fallback, warnings |-> step.warnings]
  ELSE [threw |-> FALSE, ret |-> step.v, warnings |-> step.warnings]

\* What the function returns, given the outcome of the manifest step and the
\* value of the fallback expression.
Return(step, fallback) ==
  CASE step.outcome = "throw" ->
         [threw |-> TRUE, ret |-> Undefined, warnings |-> step.warnings]
    [] step.outcome = "return" ->
         [threw |-> FALSE, ret |-> step.v, warnings |-> step.warnings]
    [] OTHER ->
         [threw |-> FALSE, ret |-> fallback, warnings |-> step.warnings]

\* loadImageReference(repoName), with the file system and process.env it reads.
loadImageReference(repoName, file, env) ==
  Return(ManifestStep(file, repoName), EnvFallback(env, repoName))

(***************************************************************************)
(* Digest Resolver: scripts/resolve-image-digests.sh                       *)
(***************************************************************************)
\* Faulty variant: the repetition count of the pattern is one short.
is_digest_short(v) ==
  /\ Len(v) = Len(SHA256_PREFIX) + DigestHexLen - 1
  /\ SubSeq(v, 1, Len(SHA256_PREFIX)) = SHA256_PREFIX
  /\ \A i \in (Len(SHA256_PREFIX) + 1)..Len(v) :
       v[i] \in {"a","b","c","d","e","f"} \cup Range(DIGITS)

\* Faulty variant: the character class also admits upper-case hex digits.
is_digest_any_case(v) ==
  /\ Len(v) = Len(SHA256_PREFIX) + DigestHexLen
  /\ SubSeq(v, 1, Len(SHA256_PREFIX)) = SHA256_PREFIX
  /\ \A i \in (Len(SHA256_PREFIX) + 1)..Len(v) :
       v[i] \in {"a","b","c","d","e","f","A","B","C","D","E","F"} \cup Range(DIGITS)

\* [[ "$1" =~ ^sha256:[a-f0-9]{64}$ ]]
is_digest(v) ==
  /\ Len(v) = Len(SHA256_PREFIX) + DigestHexLen
  /\ SubSeq(v, 1, Len(SHA256_PREFIX)) = SHA256_PREFIX
  /\ \A i \in (Len(SHA256_PREFIX) + 1)..Len(v) :
       v[i] \in {"a","b","c","d","e","f"} \cup Range(DIGITS)

\* [[ "$var_name" =~ ^[A-Z]+_IMAGE_TAG$ ]], also the pattern of the grep that
\* feeds the loop.
IsImageTagVar(var_name) ==
  /\ EndsWith(var_name, IMAGE_TAG_SUFFIX)
  /\ Len(var_name) > Len(IMAGE_TAG_SUFFIX)
  /\ \A i \in 1..(Len(var_name) - Len(IMAGE_TAG_SUFFIX)) : var_name[i] \in Range(UPPER)

\* Faulty variant: the name is not lower-cased.
var_to_repo_keep_case(var_name) ==
  IF EndsWith(var_name, IMAGE_TAG_SUFFIX)
  THEN SubSeq(var_name, 1, Len(var_name) - Len(IMAGE_TAG_SUFFIX))
  ELSE var_name

\* repo="${var_name%_IMAGE_TAG}"; echo "${repo,,}"
var_to_repo(var_name) ==
  toLowerCase(IF EndsWith(var_name, IMAGE_TAG_SUFFIX)
              THEN SubSeq(var_name, 1, Len(var_name) - Len(IMAGE_TAG_SUFFIX))
              ELSE var_name)

\* The registry has no image for a repository and tag.
NoImage == <<>>

\* What `aws ecr describe-images --query imageDetails[0].imageDigest --output text
\* 2>/dev/null` can print: the digest of the image, or nothing (the call failed)
\* or None (the query found nothing).
DescribeImagesOutput(reg, repo, tag) ==
  IF repo \in DOMAIN reg /\ tag \in DOMAIN reg[repo] /\ reg[repo][tag] # NoImage
  THEN {reg[repo][tag]}
  ELSE {<<>>, NONE_TEXT}

\* The image lookup failed: [[ -z "$digest" || "$digest" == "None" ]]
LookupFailed(out) == out = <<>> \/ out = NONE_TEXT

\* "%s" of the printf: the value between double quotes, which is one JSON
\* string unless the value holds a quote or a backslash itself.
Quoted(v) ==
  IF \E i \in 1..Len(v) : v[i] \in {"\"", "\\"}
  THEN <<BadTok(v)>>
  ELSE <<StringTok(v)>>

\* Faulty variant: the last two arguments of the printf are swapped.
EntryTextSwapped(repo, tag, digest) ==
  Quoted(repo) \o <<Punct(":"), Punct("{"), StringTok(KEY_TAG), Punct(":")>>
    \o Quoted(digest) \o <<Punct(","), StringTok(KEY_DIGEST), Punct(":")>>
    \o Quoted(tag) \o <<Punct("}")>>

\* printf '  "%s": {\n    "tag": "%s",\n    "digest": "%s"\n  }' repo tag digest
EntryText(repo, tag, digest) ==
  Quoted(repo) \o <<Punct(":"), Punct("{"), StringTok(KEY_TAG), Punct(":")>>
    \o Quoted(tag) \o <<Punct(","), StringTok(KEY_DIGEST), Punct(":")>>
    \o Quoted(digest) \o <<Punct("}")>>

RECURSIVE Flatten(_)
\* printf '%s\n' "${manifest_entries[@]}"
Flatten(ss) == IF ss = <<>> THEN <<>> ELSE Head(ss) \o Flatten(Tail(ss))

ErrorLine(text, repo, tag) == [text |-> text, repo |-> repo, tag |-> tag]

(***************************************************************************)
(* Values the model draws from                                             *)
(***************************************************************************)
CHEF_IMAGE_TAG == <<"C","H","E","F","_","I","M","A","G","E","_","T","A","G">>

PREPPER_IMAGE_TAG == <<"P","R","E","P","P","E","R","_","I","M","A","G","E","_","T","A","G">>

AWS_PROFILE == <<"A","W","S","_","P","R","O","F","I","L","E">>

v1 == <<"v","1">>

v2 == <<"v","2">>

personal == <<"p","e","r","s","o","n","a","l">>

\* Digests: three well-formed ones and one with upper-case hex digits.
digestA == SHA256_PREFIX \o Rep("a", DigestHexLen)

digestB == SHA256_PREFIX \o Rep("b", DigestHexLen)

digestC == SHA256_PREFIX \o Rep("c", DigestHexLen)

digestUpper == SHA256_PREFIX \o Rep("A", DigestHexLen)

\* Longest .env file of the model, in lines.
MaxDecls == 2

Repos == {chef, prepper}

RegistryTags == {v1}

\* Images pushed to a repository of the model.
PushedDigests(repo) == IF repo = chef THEN {digestB, digestC} ELSE {digestB}

DeclaredValues == {v1, digestA, digestUpper}

\* Lines a .env file of the model is made of: declarations of the two services
\* and one variable that is no image tag declaration.
EnvLines ==
  [var_name : {CHEF_IMAGE_TAG}, value : DeclaredValues]
    \cup {[var_name |-> PREPPER_IMAGE_TAG, value |-> v1]}
    \cup {[var_name |-> AWS_PROFILE, value |-> personal]}

SeqsUpTo(S, n) == UNION {[1..k -> S] : k \in 0..n}

\* process.env without a variable.
Unset == <<"unset">>

ProcEnv(c, p) ==
  [n \in (IF c = Unset THEN {} ELSE {CHEF_IMAGE_TAG})
           \cup (IF p = Unset THEN {} ELSE {PREPPER_IMAGE_TAG}) |->
     IF n = CHEF_IMAGE_TAG THEN c ELSE p]

NotCalled == [t |-> "notcalled", s |-> <<>>, m |-> NoMembers, a |-> <<>>]

\* No call of loadImageReference for a service so far.  The history of calls
\* is kept in the behaviours that start with it switched on.
NoRead ==
  [kept |-> TRUE, called |-> FALSE, file |-> AbsentFile, env |-> <<>>,
   threw |-> FALSE, ret |-> NotCalled]

NoHistory ==
  [kept |-> FALSE, called |-> FALSE, file |-> AbsentFile, env |-> <<>>,
   threw |-> FALSE, ret |-> NotCalled]

NoCall == [called |-> FALSE, repoName |-> <<>>, threw |-> FALSE, ret |-> NotCalled,
           warnings |-> <<>>]

(***************************************************************************)
(* App context and the resources of KitchenServiceStack                    *)
(***************************************************************************)
firebaseProjectId == "firebaseProjectId"
openAiApiKey == "openAiApiKey"
s3CookbooksBucket == "s3CookbooksBucket"
dynamoCookbooksTable == "dynamoCookbooksTable"
githubConnectionArn == "github-connection-arn"

\* A context value that is set, and one that is set to the empty string.
kassi == <<"k">>
ContextValues == {<<>>, kassi}

Contexts(keys) == UNION {[ks -> ContextValues] : ks \in SUBSET keys}

\* this.node.tryGetContext(key)
tryGetContext(ctx, key) ==
  IF key \in DOMAIN ctx THEN JString(ctx[key]) ELSE Undefined

\* The context a deployment of the service stack is given.
CdkContext == [k \in {firebaseProjectId, openAiApiKey} |-> kassi]

NoError == ""
FirebaseProjectIdRequired ==
  "Context variable \"firebaseProjectId\" is required (e.g., \"kassi-242d1\")"
OpenAiApiKeyRequired == "Context variable \"openAiApiKey\" is required"
GitHubConnectionRequired == "GitHub connection ARN not found in cdk.context.json."
LoaderThrew == "loadImageReference threw"

Resource(type, name, method, authorizer) ==
  [type |-> type, name |-> name, method |-> method, authorizer |-> authorizer]

NoAuthorizer == ""

RecipeMetadataBucket == Resource("AWS::S3::Bucket", "recipe-metadata", "", NoAuthorizer)
RecipesTable == Resource("AWS::DynamoDB::Table", "recipes", "", NoAuthorizer)
FirebaseAuthorizer == Resource("HttpJwtAuthorizer", "FirebaseJwtAuthorizer", "", NoAuthorizer)

\* Faulty variant: the functions are given no name of their own.
DockerImageFunctionUnnamed(repoName) ==
  Resource("AWS::Lambda::Function", "", "", NoAuthorizer)

\* functionName of the DockerImageFunction each Lambda construct defines.
DockerImageFunction(repoName) ==
  Resource("AWS::Lambda::Function", IF repoName = chef THEN "chef" ELSE "prepper",
           "", NoAuthorizer)

Route(method, path, authorizer) == Resource("Route", path, method, authorizer)

\* Faulty variant: the DELETE route is added without the authorizer.
RoutesOpenDelete(firebaseAuthorizer) ==
  { Route("GET", "/fetch", NoAuthorizer),
    Route("GET", "/health", NoAuthorizer),
    Route("POST", "/recipe/load", firebaseAuthorizer),
    Route("POST", "/recipe/{urlHash}/improve", firebaseAuthorizer),
    Route("GET", "/recipe/{urlHash}", firebaseAuthorizer),
    Route("PUT", "/recipe/{urlHash}", firebaseAuthorizer),
    Route("GET", "/recipes", firebaseAuthorizer),
    Route("DELETE", "/recipe/{urlHash}", NoAuthorizer) }

\* The eight addRoutes calls of KitchenApi.
Routes(firebaseAuthorizer) ==
  { Route("GET", "/fetch", NoAuthorizer),
    Route("GET", "/health", NoAuthorizer),
    Route("POST", "/recipe/load", firebaseAuthorizer),
    Route("POST", "/recipe/{urlHash}/improve", firebaseAuthorizer),
    Route("GET", "/recipe/{urlHash}", firebaseAuthorizer),
    Route("PUT", "/recipe/{urlHash}", firebaseAuthorizer),
    Route("GET", "/recipes", firebaseAuthorizer),
    Route("DELETE", "/recipe/{urlHash}", firebaseAuthorizer) }

(***************************************************************************)
(* CicdStack: build projects and EventBridge rules                         *)
(***************************************************************************)
CHEF_TAG == <<"C","H","E","F","_","T","A","G">>
PREPPER_TAG == <<"P","R","E","P","P","E","R","_","T","A","G">>

\* process.env of the synthesis of CicdStack.
BuildEnv(c, p) ==
  [n \in (IF c = Unset THEN {} ELSE {CHEF_TAG})
           \cup (IF p = Unset THEN {} ELSE {PREPPER_TAG}) |->
     IF n = CHEF_TAG THEN c ELSE p]

\* a || b
Or(a, b) == IF Truthy(a) THEN a ELSE b

\* Faulty variant: PREPPER_TAG is looked at first.
IMAGE_TAG_PrepperFirst(env) ==
  OrLatest(Or(EnvLookup(env, PREPPER_TAG), EnvLookup(env, CHEF_TAG)))

\* process.env.CHEF_TAG || process.env.PREPPER_TAG || 'latest'
IMAGE_TAG(env) ==
  OrLatest(Or(EnvLookup(env, CHEF_TAG), EnvLookup(env, PREPPER_TAG)))

KitchenBuildEcr(projectName, env) ==
  [projectName |-> projectName, IMAGE_TAG |-> IMAGE_TAG(env)]

\* The repository names KitchenImports reads from the parameter store.
KitchenImports == [chef |-> [name |-> "chef"], prepper |-> [name |-> "prepper"]]

Rule(ruleName, repositoryName) ==
  [ruleName |-> ruleName,
   eventPattern |-> [source |-> {"aws.ecr"},
                     detailType |-> {"ECR Image Action"},
                     actionType |-> {"PUSH"},
                     result |-> {"SUCCESS"},
                     repositoryName |-> {repositoryName}],
   targets |-> {}]

addTarget(rule, pipeline) == [rule EXCEPT !.targets = @ \cup {pipeline}]

\* Faulty variant: the prepper rule is left without a target.
createEcrPushTriggersChefOnly(ecr, pipeline) ==
  { addTarget(Rule("Kitchen-Chef-ECR-Push-Trigger", ecr.chef.name), pipeline),
    Rule("Kitchen-Prepper-ECR-Push-Trigger", ecr.prepper.name) }

createEcrPushTriggers(ecr, pipeline) ==
  { addTarget(Rule("Kitchen-Chef-ECR-Push-Trigger", ecr.chef.name), pipeline),
    addTarget(Rule("Kitchen-Prepper-ECR-Push-Trigger", ecr.prepper.name), pipeline) }

\* EventBridge matching: every field of the pattern lists the event's value.
Matches(pattern, e) ==
  /\ e.source \in pattern.source
  /\ e.detailType \in pattern.detailType
  /\ e.actionType \in pattern.actionType
  /\ e.result \in pattern.result
  /\ e.repositoryName \in pattern.repositoryName

\* What an event starts: each target of each rule it matches.
Started(rules, e) ==
  UNION { {[rule |-> r.ruleName, pipeline |-> tg] : tg \in r.targets} :
          r \in {q \in rules : Matches(q.eventPattern, e)} }

Events ==
  [source : {"aws.ecr"},
   detailType : {"ECR Image Action", "ECR Image Scan"},
   actionType : {"PUSH", "DELETE"},
   result : {"SUCCESS", "FAILURE"},
   repositoryName : {"chef", "prepper", "kitchen"}]

MaxEvents == 2

NoCicd == [state |-> "idle", pipelines |-> {}, projects |-> {}, rules |-> {},
           error |-> NoError]

(***************************************************************************)
(* State                                                                   *)
(***************************************************************************)
VARIABLES
  envFile,           \* .env: [exists, lines], a line is [var_name, value]
  credsOK,           \* whether aws sts get-caller-identity succeeds
  registry,          \* ECR: repository -> tag -> digest or NoImage
  manifestFile,      \* image-manifest.json
  procEnv,           \* process.env of the CDK process
  rpc,               \* Resolver: position in the script
  pending,           \* Resolver: lines of the grep not read yet
  manifest_entries,  \* Resolver: the array of that name
  first,             \* Resolver: the flag of that name
  exitStatus,        \* Resolver: exit status of the last run, -1 while running
  stderr,            \* Resolver: error lines of the last run
  queries,           \* registry image queries issued by the run
  resolved,          \* [var_name, value, repo, digest] of each iteration of the run
  manifestBefore,    \* image-manifest.json as it was when the run started
  snapshot,          \* per service, the digest the last run that ended with 0 wrote
  dpc,               \* KitchenServiceStack constructor: position
  tagOrDigest,       \* tagOrDigest handed to each DockerImageFunction
  console,           \* console.warn lines of the pass
  lastCall,          \* the last call of loadImageReference and its outcome
  prevCall,          \* per service, what its previous call read and returned
  context,           \* the app context: key -> value
  resources,         \* resources KitchenServiceStack has defined in this pass
  error,             \* message of the Error the constructor threw, if any
  cicd,              \* what CicdStack has defined: [state, projects, rules]
  delivered          \* events EventBridge has received, with what each started

vars == <<envFile, credsOK, registry, manifestFile, procEnv, rpc, pending,
          manifest_entries, first, exitStatus, stderr, queries, resolved,
          manifestBefore, snapshot, dpc, tagOrDigest, console, lastCall, prevCall,
          context, resources, error, cicd, delivered>>

cicdVars == <<cicd, delivered>>

worldVars == <<envFile, credsOK, registry, procEnv, context, cicdVars>>

resolverVars == <<rpc, pending, manifest_entries, first, exitStatus, stderr,
                  queries, resolved, manifestBefore, snapshot>>

deployVars == <<dpc, tagOrDigest, console, lastCall, prevCall, resources, error>>

(***************************************************************************)
(* Resolver run, one action per step of the script                         *)
(***************************************************************************)
\* The digest a run leaves in the manifest for s: that of the last iteration
\* that wrote key s, none when no iteration did.
NoSnapshot == <<"none">>

SnapshotOf(rs, s) ==
  IF \A i \in DOMAIN rs : rs[i].repo # s THEN NoSnapshot
  ELSE rs[CHOOSE i \in DOMAIN rs :
            rs[i].repo = s /\ \A j \in DOMAIN rs : rs[j].repo = s => j <= i].digest

\* Lines 57-60: a new invocation; the script stops when .env is missing.  The
\* credentials the run will meet are those of the moment it starts.
ResolverStart ==
  /\ rpc \in {"idle", "exited"}
  /\ pending' = <<>>
  /\ manifest_entries' = <<>>
  /\ first' = TRUE
  /\ queries' = <<>>
  /\ resolved' = <<>>
  /\ manifestBefore' = manifestFile
  /\ credsOK' \in BOOLEAN
  /\ IF ~envFile.exists
     THEN /\ stderr' = <<ErrorLine("Error: .env not found", <<>>, <<>>)>>
          /\ exitStatus' = 1
          /\ rpc' = "exited"
     ELSE /\ stderr' = <<>>
          /\ exitStatus' = -1
          /\ rpc' = "credentials"
  /\ UNCHANGED <<envFile, registry, procEnv, context, cicdVars, manifestFile,
                 snapshot, deployVars>>

\* Faulty variant: the outcome of aws sts get-caller-identity is not tested.
ValidateCredentialsUntested ==
  /\ rpc = "credentials"
  /\ pending' = SelectSeq(envFile.lines, LAMBDA l : IsImageTagVar(l.var_name))
  /\ rpc' = "loop"
  /\ UNCHANGED <<worldVars, manifestFile, manifest_entries, first, exitStatus, stderr,
                 queries, resolved, manifestBefore, snapshot, deployVars>>

\* Faulty variant: a run that stops on its credentials removes the manifest.
ValidateCredentialsCleaning ==
  /\ rpc = "credentials"
  /\ IF ~credsOK
     THEN /\ stderr' = Append(stderr,
                         ErrorLine("Error: AWS credentials not configured", <<>>, <<>>))
          /\ exitStatus' = 1
          /\ rpc' = "exited"
          /\ pending' = pending
          /\ manifestFile' = AbsentFile
     ELSE /\ pending' = SelectSeq(envFile.lines, LAMBDA l : IsImageTagVar(l.var_name))
          /\ rpc' = "loop"
          /\ UNCHANGED <<stderr, exitStatus, manifestFile>>
  /\ UNCHANGED <<worldVars, manifest_entries, first, queries, resolved,
                 manifestBefore, snapshot, deployVars>>

\* Lines 73-76, then the grep of line 154 that feeds the loop.
ValidateCredentials ==
  /\ rpc = "credentials"
  /\ IF ~credsOK
     THEN /\ stderr' = Append(stderr,
                         ErrorLine("Error: AWS credentials not configured", <<>>, <<>>))
          /\ exitStatus' = 1
          /\ rpc' = "exited"
          /\ pending' = pending
     ELSE /\ pending' = SelectSeq(envFile.lines, LAMBDA l : IsImageTagVar(l.var_name))
          /\ rpc' = "loop"
          /\ UNCHANGED <<stderr, exitStatus>>
  /\ UNCHANGED <<worldVars, manifestFile, manifest_entries, first, queries, resolved,
                 manifestBefore, snapshot, deployVars>>

\* One registry query and what it printed.
Query(repo, tag, out) == [repo |-> repo, tag |-> tag, out |-> out]

\* Faulty variant: the result of the lookup is not tested.
resolve_digest_unchecked(repo, tag, out) ==
  IF is_digest(tag)
  THEN [failed |-> FALSE, digest |-> tag, asked |-> <<>>, err |-> <<>>]
  ELSE [failed |-> FALSE, digest |-> out,
        asked |-> <<Query(repo, tag, out)>>, err |-> <<>>]

\* Faulty variant: the error does not say which image was looked up.
resolve_digest_anonymous(repo, tag, out) ==
  IF is_digest(tag)
  THEN [failed |-> FALSE, digest |-> tag, asked |-> <<>>, err |-> <<>>]
  ELSE IF LookupFailed(out)
  THEN [failed |-> TRUE, digest |-> <<>>,
        asked |-> <<Query(repo, tag, out)>>,
        err |-> <<ErrorLine("Error: Image not found in ECR", <<>>, <<>>)>>]
  ELSE [failed |-> FALSE, digest |-> out,
        asked |-> <<Query(repo, tag, out)>>, err |-> <<>>]

\* resolve_digest (lines 88-112), with out what the aws command prints when it
\* is run: the digest, the registry query issued (at most one), and whether
\* the function ended the script.
resolve_digest(repo, tag, out) ==
  IF is_digest(tag)
  THEN [failed |-> FALSE, digest |-> tag, asked |-> <<>>, err |-> <<>>]
  ELSE IF LookupFailed(out)
  THEN [failed |-> TRUE, digest |-> <<>>,
        asked |-> <<Query(repo, tag, out)>>,
        err |-> <<ErrorLine("Error: Image not found in ECR", repo, tag)>>]
  ELSE [failed |-> FALSE, digest |-> out,
        asked |-> <<Query(repo, tag, out)>>, err |-> <<>>]

\* Lines 131-154: one iteration of the while loop.
LoopIteration ==
  /\ rpc = "loop"
  /\ pending # <<>>
  /\ LET var_name == Head(pending).var_name
         value == Head(pending).value
         repo == var_to_repo(var_name)
     IN \E out \in DescribeImagesOutput(registry, repo, value) :
          LET r == resolve_digest(repo, value, out)
              original_tag == IF is_digest(value) THEN LATEST ELSE value
              entry == EntryText(repo, original_tag, r.digest)
          IN /\ pending' = Tail(pending)
             /\ queries' = queries \o r.asked
             /\ stderr' = stderr \o r.err
             /\ IF ~IsImageTagVar(var_name)
                THEN UNCHANGED <<rpc, exitStatus, manifest_entries, first, resolved>>
                ELSE IF r.failed
                THEN /\ rpc' = "exited"
                     /\ exitStatus' = 1
                     /\ UNCHANGED <<manifest_entries, first, resolved>>
                ELSE /\ manifest_entries' =
                          IF first THEN manifest_entries \o <<entry>>
                          ELSE manifest_entries \o <<<<Punct(",")>>, entry>>
                     /\ first' = FALSE
                     /\ resolved' = Append(resolved,
                          [var_name |-> var_name, value |-> value, repo |-> repo,
                           tag |-> original_tag, digest |-> r.digest,
                           asked |-> r.asked])
                     /\ UNCHANGED <<rpc, exitStatus>>
  /\ UNCHANGED <<worldVars, manifestFile, manifestBefore, snapshot, deployVars>>

\* Faulty variant: the redirection appends (>>) and keeps what the file held.
OpenManifestAppending ==
  /\ rpc = "loop"
  /\ pending = <<>>
  /\ manifestFile' = IF manifestFile.exists THEN manifestFile ELSE FileWith(<<>>)
  /\ rpc' = "echo_open"
  /\ UNCHANGED <<worldVars, pending, manifest_entries, first, exitStatus, stderr,
                 queries, resolved, manifestBefore, snapshot, deployVars>>

\* Faulty variant: a run that has no entry to write ends without opening the
\* manifest, which keeps what the earlier run wrote.
OpenManifestUnlessEmpty ==
  /\ rpc = "loop"
  /\ pending = <<>>
  /\ IF manifest_entries = <<>>
     THEN /\ rpc' = "exited"
          /\ exitStatus' = 0
          /\ UNCHANGED manifestFile
     ELSE /\ rpc' = "echo_open"
          /\ manifestFile' = FileWith(<<>>)
          /\ UNCHANGED exitStatus
  /\ UNCHANGED <<worldVars, pending, manifest_entries, first, stderr,
                 queries, resolved, manifestBefore, snapshot, deployVars>>

\* Line 163: the redirection opens image-manifest.json, creating or truncating it.
OpenManifest ==
  /\ rpc = "loop"
  /\ pending = <<>>
  /\ manifestFile' = FileWith(<<>>)
  /\ rpc' = "echo_open"
  /\ UNCHANGED <<worldVars, pending, manifest_entries, first, exitStatus, stderr,
                 queries, resolved, manifestBefore, snapshot, deployVars>>

\* Line 160: echo "{"
EchoOpen ==
  /\ rpc = "echo_open"
  /\ manifestFile' = FileWith(manifestFile.content \o <<Punct("{")>>)
  /\ rpc' = "printf_entries"
  /\ UNCHANGED <<worldVars, pending, manifest_entries, first, exitStatus, stderr,
                 queries, resolved, manifestBefore, snapshot, deployVars>>

\* Faulty variant: the entries are written together with the closing brace,
\* so the file is complete before the last step of the write.
PrintfEntriesClosed ==
  /\ rpc = "printf_entries"
  /\ manifestFile' = FileWith(manifestFile.content \o Flatten(manifest_entries)
                                \o <<Punct("}")>>)
  /\ rpc' = "echo_close"
  /\ UNCHANGED <<worldVars, pending, manifest_entries, first, exitStatus, stderr,
                 queries, resolved, manifestBefore, snapshot, deployVars>>

\* Line 161: printf '%s\n' "${manifest_entries[@]}"
PrintfEntries ==
  /\ rpc = "printf_entries"
  /\ manifestFile' = FileWith(manifestFile.content \o Flatten(manifest_entries))
  /\ rpc' = "echo_close"
  /\ UNCHANGED <<worldVars, pending, manifest_entries, first, exitStatus, stderr,
                 queries, resolved, manifestBefore, snapshot, deployVars>>

\* Lines 162-165: echo "}", and the script ends with status 0.
EchoClose ==
  /\ rpc = "echo_close"
  /\ manifestFile' = FileWith(manifestFile.content \o <<Punct("}")>>)
  /\ exitStatus' = 0
  /\ rpc' = "exited"
  /\ snapshot' = [s \in Repos |-> SnapshotOf(resolved, s)]
  /\ UNCHANGED <<worldVars, pending, manifest_entries, first, stderr,
                 queries, resolved, manifestBefore, deployVars>>

(***************************************************************************)
(* Configuration pass: the KitchenServiceStack constructor                 *)
(***************************************************************************)
\* One call of loadImageReference from a Lambda construct, given its outcome r.
Construct(repoName, r) ==
  /\ console' = console \o r.warnings
  /\ lastCall' = [called |-> TRUE, repoName |-> repoName, threw |-> r.threw,
                  ret |-> r.ret, warnings |-> r.warnings]
  /\ IF r.threw
     THEN /\ dpc' = "threw"
          /\ error' = LoaderThrew
          /\ UNCHANGED <<tagOrDigest, resources>>
     ELSE /\ tagOrDigest' = [tagOrDigest EXCEPT ![repoName] = r.ret]
          /\ resources' = resources \cup {DockerImageFunction(repoName)}
          /\ dpc' = IF repoName = prepper THEN "chef" ELSE "api"
          /\ UNCHANGED error
  /\ prevCall' = IF prevCall[repoName].kept
                  THEN [prevCall EXCEPT ![repoName] =
                          [kept |-> TRUE, called |-> TRUE, file |-> manifestFile,
                           env |-> procEnv, threw |-> r.threw, ret |-> r.ret]]
                  ELSE prevCall

\* Faulty variant: the call reads a copy of the manifest taken when the last
\* Resolver run started, not the file on disk.
CallLoaderStale(repoName) ==
  Construct(repoName, loadImageReference(repoName, manifestBefore, procEnv))

CallLoader(repoName) ==
  Construct(repoName, loadImageReference(repoName, manifestFile, procEnv))

\* new KitchenServiceStack(app, 'kitchen', ...)
\* Faulty variant: the constructor goes on without looking at the context.
StackStartUnchecked ==
  /\ dpc \in {"idle", "done", "threw"}
  /\ tagOrDigest' = [s \in Repos |-> NotCalled]
  /\ console' = <<>>
  /\ lastCall' = NoCall
  /\ prevCall' = prevCall
  /\ dpc' = "prepper"
  /\ error' = NoError
  /\ resources' = {RecipeMetadataBucket, RecipesTable, FirebaseAuthorizer}
  /\ UNCHANGED <<worldVars, manifestFile, resolverVars>>

\* Lines 12-34: the context check, then the storage and the authorizer.
StackStart ==
  /\ dpc \in {"idle", "done", "threw"}
  /\ tagOrDigest' = [s \in Repos |-> NotCalled]
  /\ console' = <<>>
  /\ lastCall' = NoCall
  /\ prevCall' = prevCall
  /\ IF ~Truthy(tryGetContext(context, firebaseProjectId))
     THEN /\ dpc' = "threw"
          /\ error' = FirebaseProjectIdRequired
          /\ resources' = {}
     ELSE /\ dpc' = "prepper"
          /\ error' = NoError
          /\ resources' = {RecipeMetadataBucket, RecipesTable, FirebaseAuthorizer}
  /\ UNCHANGED <<worldVars, manifestFile, resolverVars>>

\* Faulty variant: the call removes a manifest it could not parse.
PrepperLambdaRepairing ==
  /\ dpc = "prepper"
  /\ CallLoader(prepper)
  /\ manifestFile' =
       IF manifestFile.exists /\ manifestFile.readable
            /\ ~JSONparse(manifestFile.content).ok
       THEN AbsentFile ELSE manifestFile
  /\ UNCHANGED <<worldVars, resolverVars>>

\* new PrepperLambda(...): tagOrDigest: loadImageReference('prepper')
PrepperLambda ==
  /\ dpc = "prepper"
  /\ CallLoader(prepper)
  /\ UNCHANGED <<worldVars, manifestFile, resolverVars>>

\* new ChefLambda(...): tagOrDigest: loadImageReference('chef')
\* Lines 34-37 come first: without openAiApiKey the constructor throws.
ChefLambda ==
  /\ dpc = "chef"
  /\ IF ~Truthy(tryGetContext(context, openAiApiKey))
     THEN /\ dpc' = "threw"
          /\ error' = OpenAiApiKeyRequired
          /\ UNCHANGED <<tagOrDigest, console, lastCall, prevCall, resources>>
     ELSE CallLoader(chef)
  /\ UNCHANGED <<worldVars, manifestFile, resolverVars>>

\* new KitchenApi(...): the routes, and the constructor returns.
KitchenApi ==
  /\ dpc = "api"
  /\ resources' = resources \cup Routes(FirebaseAuthorizer.name)
  /\ dpc' = "done"
  /\ UNCHANGED <<worldVars, manifestFile, resolverVars, tagOrDigest, console,
                 lastCall, prevCall, error>>

(***************************************************************************)
(* The registry                                                            *)
(***************************************************************************)
\* An image is pushed: the tag now names that image.
PushImage ==
  \E repo \in Repos, tag \in RegistryTags :
   \E d \in PushedDigests(repo) :
    /\ registry[repo][tag] # d
    /\ registry' = [registry EXCEPT ![repo][tag] = d]
    /\ UNCHANGED <<envFile, credsOK, procEnv, context, cicdVars, manifestFile,
                   resolverVars, deployVars>>

(***************************************************************************)
(* CicdStack and the events of the registry                                *)
(***************************************************************************)
\* new CicdStack(app, 'kitchen-cicd', ...)
CicdStack ==
  /\ cicd.state = "idle"
  /\ cicd' =
       IF ~Truthy(tryGetContext(context, githubConnectionArn))
       THEN [NoCicd EXCEPT !.state = "threw", !.error = GitHubConnectionRequired]
       ELSE [state |-> "defined",
             pipelines |-> {"Chef-ECR", "Prepper-ECR", "Kitchen-Deploy"},
             projects |-> {KitchenBuildEcr("Chef-ECR-Deploy", procEnv),
                           KitchenBuildEcr("Prepper-ECR-Deploy", procEnv)},
             rules |-> createEcrPushTriggers(KitchenImports, "Kitchen-Deploy"),
             error |-> NoError]
  /\ UNCHANGED <<envFile, credsOK, registry, procEnv, context, delivered,
                 manifestFile, resolverVars, deployVars>>

\* An event reaches EventBridge once the rules exist.
PutEvents ==
  /\ cicd.state = "defined"
  /\ Len(delivered) < MaxEvents
  /\ \E e \in Events :
       delivered' = Append(delivered, [event |-> e, started |-> Started(cicd.rules, e)])
  /\ UNCHANGED <<envFile, credsOK, registry, procEnv, context, cicd,
                 manifestFile, resolverVars, deployVars>>

(***************************************************************************)
(* Specifications                                                          *)
(***************************************************************************)
PriorManifest ==
  FileWith(<<Punct("{")>> \o EntryText(chef, v1, digestC) \o <<Punct("}")>>)

ResolverIdle ==
  /\ rpc = "idle"
  /\ pending = <<>>
  /\ manifest_entries = <<>>
  /\ first = TRUE
  /\ exitStatus = 0
  /\ stderr = <<>>
  /\ queries = <<>>
  /\ resolved = <<>>
  /\ manifestBefore = manifestFile
  /\ snapshot = [s \in Repos |-> NoSnapshot]

DeployIdle ==
  /\ dpc = "idle"
  /\ tagOrDigest = [s \in Repos |-> NotCalled]
  /\ console = <<>>
  /\ lastCall = NoCall
  /\ resources = {}
  /\ error = NoError

CicdIdle ==
  /\ cicd = NoCicd
  /\ delivered = <<>>

\* The resolve/deploy protocol.
Init ==
  /\ envFile \in {[exists |-> FALSE, lines |-> <<>>]}
       \cup {[exists |-> TRUE, lines |-> ls] : ls \in SeqsUpTo(EnvLines, MaxDecls)}
  /\ credsOK \in BOOLEAN
  /\ registry = [repo \in Repos |-> [tag \in RegistryTags |-> NoImage]]
  /\ manifestFile \in {AbsentFile, PriorManifest}
  /\ procEnv = ProcEnv(v2, Unset)
  /\ ResolverIdle
  /\ DeployIdle
  /\ prevCall = [s \in Repos |-> NoHistory]
  /\ context = CdkContext
  /\ CicdIdle

Next ==
  \/ ResolverStart
  \/ ValidateCredentials
  \/ LoopIteration
  \/ OpenManifest
  \/ EchoOpen
  \/ PrintfEntries
  \/ EchoClose
  \/ StackStart
  \/ PrepperLambda
  \/ ChefLambda
  \/ KitchenApi
  \/ PushImage

Spec == Init /\ [][Next]_vars

\* The protocol with the history of Loader calls kept: runs of the Resolver
\* with usable credentials against a registry that holds an image for each
\* service, and configuration passes repeated around them.
RepeatLines ==
  { [var_name |-> CHEF_IMAGE_TAG, value |-> v1],
    [var_name |-> CHEF_IMAGE_TAG, value |-> digestA],
    [var_name |-> PREPPER_IMAGE_TAG, value |-> v1] }

InitRepeat ==
  /\ envFile \in {[exists |-> TRUE, lines |-> ls] : ls \in SeqsUpTo(RepeatLines, MaxDecls)}
  /\ credsOK = TRUE
  /\ registry = [repo \in Repos |-> [tag \in RegistryTags |-> digestB]]
  /\ manifestFile \in {AbsentFile, PriorManifest}
  /\ procEnv = ProcEnv(v2, Unset)
  /\ ResolverIdle
  /\ DeployIdle
  /\ prevCall = [s \in Repos |-> NoRead]
  /\ context = CdkContext
  /\ CicdIdle

NextRepeat ==
  \/ ResolverStart
  \/ ValidateCredentials
  \/ LoopIteration
  \/ OpenManifest
  \/ EchoOpen
  \/ PrintfEntries
  \/ EchoClose
  \/ StackStart
  \/ PrepperLambda
  \/ ChefLambda
  \/ KitchenApi

RepeatSpec == InitRepeat /\ [][NextRepeat]_vars

(***************************************************************************)
(* The Loader on its own: every shape of image-manifest.json and of        *)
(* process.env the model draws, both Lambda constructs calling             *)
(***************************************************************************)
Braces(content) == <<Punct("{")>> \o content \o <<Punct("}")>>

Member(key, valueText) == <<StringTok(key), Punct(":")>> \o valueText

Comma == <<Punct(",")>>

\* { "tag": "v1", "digest": <digestText> }
EntryWithDigest(digestText) ==
  Braces(Member(KEY_TAG, <<StringTok(v1)>>) \o Comma \o Member(KEY_DIGEST, digestText))

\* Texts a digest field can hold: well-formed and not, strings and not.
DigestTexts ==
  { <<StringTok(digestA)>>, <<StringTok(digestUpper)>>, <<StringTok(v1)>>,
    <<StringTok(<<>>)>>, <<NumberTok(<<"7">>)>>, <<NumberTok(<<"0">>)>>,
    <<LiteralTok(TEXT_NULL)>>, <<LiteralTok(TEXT_TRUE)>>,
    Braces(<<>>), <<Punct("["), Punct("]")>> }

\* Texts the entry of a service can be.
EntryTexts ==
  {EntryWithDigest(d) : d \in DigestTexts}
    \cup { Braces(Member(KEY_TAG, <<StringTok(v1)>>)),
           <<LiteralTok(TEXT_NULL)>>, <<StringTok(v1)>>,
           <<Punct("["), StringTok(v1), Punct("]")>> }

\* An entry with another tag and a key the manifest format does not have,
\* next to a top-level key that names no service and holds no entry.
AnnotatedManifest ==
  Braces(Member(KEY_TAG, <<StringTok(v2)>>) \o Comma
           \o Member(chef, Braces(Member(KEY_TAG, <<StringTok(v2)>>) \o Comma
                                    \o Member(KEY_DIGEST, <<StringTok(digestA)>>) \o Comma
                                    \o Member(v1, <<NumberTok(<<"7">>)>>))))

\* Manifests with an entry for one service, for both, with a repeated key,
\* with a key no service has.
ObjectManifests ==
  {Braces(Member(s, e)) : s \in Repos, e \in EntryTexts}
    \cup { Braces(Member(chef, EntryWithDigest(<<StringTok(digestA)>>)) \o Comma
                    \o Member(prepper, EntryWithDigest(<<StringTok(digestB)>>))),
           Braces(Member(chef, EntryWithDigest(<<StringTok(digestA)>>)) \o Comma
                    \o Member(chef, EntryWithDigest(<<StringTok(digestB)>>))),
           Braces(Member(v2, EntryWithDigest(<<StringTok(digestC)>>)) \o Comma
                    \o Member(prepper, EntryWithDigest(<<StringTok(digestB)>>))),
           Braces(Member(chef, Braces(Member(KEY_TAG, <<StringTok(v1)>>))) \o Comma
                    \o Member(prepper, EntryWithDigest(<<StringTok(digestB)>>))),
           Braces(Member(chef, EntryWithDigest(<<StringTok(digestA)>>)) \o Comma
                    \o Member(prepper, EntryWithDigest(<<StringTok(<<>>)>>))),
           AnnotatedManifest,
           Braces(<<>>) }

\* Valid JSON that is no object.
OtherJson ==
  { <<LiteralTok(TEXT_NULL)>>, <<NumberTok(<<"7">>)>>, <<StringTok(chef)>>,
    <<Punct("["), Punct("]")>>,
    <<Punct("["), NumberTok(<<"7">>), Punct(","), Braces(<<>>)[1], Braces(<<>>)[2], Punct("]")>> }

\* Text JSON.parse rejects: an empty file, a file cut short, a missing comma,
\* a bare word, text after the value.
BrokenJson ==
  { <<>>,
    <<Punct("{")>>,
    <<Punct("{"), StringTok(chef), Punct(":")>>,
    <<Punct("{")>> \o Member(chef, EntryWithDigest(<<StringTok(digestA)>>)),
    Braces(Member(chef, EntryWithDigest(<<StringTok(digestA)>>))
             \o Member(prepper, EntryWithDigest(<<StringTok(digestB)>>))),
    Braces(Member(chef, <<BadTok(v1)>>)),
    Braces(<<>>) \o <<Punct("}")>> }

ManifestSamples ==
  {AbsentFile, UnreadableFile}
    \cup {FileWith(ts) : ts \in ObjectManifests \cup OtherJson \cup BrokenJson}

\* Values of an image tag variable in process.env: not set, empty, a tag, a digest.
ProcEnvValues == {Unset, <<>>, v2, digestC}

InitLoader ==
  /\ envFile = [exists |-> FALSE, lines |-> <<>>]
  /\ credsOK = FALSE
  /\ registry = [repo \in Repos |-> [tag \in RegistryTags |-> NoImage]]
  /\ manifestFile \in ManifestSamples
  /\ procEnv \in {ProcEnv(c, p) : c \in ProcEnvValues, p \in ProcEnvValues}
  /\ ResolverIdle
  /\ DeployIdle
  /\ prevCall = [s \in Repos |-> NoHistory]
  /\ context = CdkContext
  /\ CicdIdle

NextLoader ==
  \/ StackStart
  \/ PrepperLambda
  \/ ChefLambda
  \/ KitchenApi

LoaderSpec == InitLoader /\ [][NextLoader]_vars

\* The constructor of KitchenServiceStack over every app context.
ServiceContextKeys ==
  {firebaseProjectId, openAiApiKey, s3CookbooksBucket, dynamoCookbooksTable}

sha256test == <<"s","h","a","2","5","6",":","t","e","s","t">>

InitStack ==
  /\ envFile = [exists |-> FALSE, lines |-> <<>>]
  /\ credsOK = FALSE
  /\ registry = [repo \in Repos |-> [tag \in RegistryTags |-> NoImage]]
  /\ manifestFile \in {AbsentFile, PriorManifest}
  /\ procEnv \in {ProcEnv(c, p) : c \in {Unset, sha256test}, p \in {Unset, sha256test}}
  /\ ResolverIdle
  /\ DeployIdle
  /\ prevCall = [s \in Repos |-> NoHistory]
  /\ context \in Contexts(ServiceContextKeys)
  /\ CicdIdle

StackSpec == InitStack /\ [][NextLoader]_vars

\* The constructor of CicdStack and the events that follow.
InitCicd ==
  /\ envFile = [exists |-> FALSE, lines |-> <<>>]
  /\ credsOK = FALSE
  /\ registry = [repo \in Repos |-> [tag \in RegistryTags |-> NoImage]]
  /\ manifestFile = AbsentFile
  /\ procEnv \in {BuildEnv(c, p) : c \in {Unset, <<>>, v1}, p \in {Unset, <<>>, v2}}
  /\ ResolverIdle
  /\ DeployIdle
  /\ prevCall = [s \in Repos |-> NoHistory]
  /\ context \in Contexts({githubConnectionArn})
  /\ CicdIdle

NextCicd ==
  \/ CicdStack
  \/ PutEvents

CicdSpec == InitCicd /\ [][NextCicd]_vars

(***************************************************************************)
(* Properties                                                              *)
(***************************************************************************)
\* sha256: followed by exactly 64 lower-case hex characters, as the
\* specification words the digest pattern.
HexLowerChars == {"0","1","2","3","4","5","6","7","8","9","a","b","c","d","e","f"}

WellFormedDigest(v) ==
  /\ Len(v) = 71
  /\ SubSeq(v, 1, 7) = <<"s","h","a","2","5","6",":">>
  /\ \A i \in 8..71 : v[i] \in HexLowerChars

\* The image tag variable of a service, <SERVICE_NAME_UPPERCASE>_IMAGE_TAG.
TagVarOf(s) == IF s = chef THEN CHEF_IMAGE_TAG ELSE PREPPER_IMAGE_TAG

ServiceOf(var_name) == IF var_name = CHEF_IMAGE_TAG THEN chef ELSE prepper

\* The value a parsed manifest holds under entry s, field digest; undefined
\* when the manifest is no object, has no entry for s, or the entry no digest.
FieldOf(val, name) ==
  IF val.t = "object" /\ name \in DOMAIN val.m THEN val.m[name] ELSE Undefined

DigestIn(parsed, s) ==
  IF parsed.ok THEN FieldOf(FieldOf(parsed.v, s), KEY_DIGEST) ELSE Undefined

RecordedDigest(file, s) ==
  IF file.exists /\ file.readable THEN DigestIn(JSONparse(file.content), s)
  ELSE Undefined

NonEmptyString(val) == val.t = "string" /\ val.s # <<>>

\* The manifest step yields nothing: no file, no parse, no entry, no digest,
\* or an empty one.
AbsentOrEmpty(val) ==
  \/ val.t \in {"undefined", "null"}
  \/ val.t = "string" /\ val.s = <<>>
  \/ val.t = "number" /\ val.s = <<"0">>
  \/ val.t = "boolean" /\ val.s = TEXT_FALSE

EnvSet(env, s) == TagVarOf(s) \in DOMAIN env /\ env[TagVarOf(s)] # <<>>

\* What the environment and default tiers give for s.
TierResult(env, s) == IF EnvSet(env, s) THEN env[TagVarOf(s)] ELSE LATEST

ReturnedString(call, str) == ~call.threw /\ call.ret.t = "string" /\ call.ret.s = str

InvalidJson(file) == file.exists /\ file.readable /\ ~JSONparse(file.content).ok

\* C1: manifest precedence.  A call of loadImageReference(s) made while the
\* manifest exists, parses and holds a non-empty digest string for s returns
\* exactly that string, whatever <S>_IMAGE_TAG is.
C1_ManifestPrecedence ==
  (lastCall.called /\ NonEmptyString(RecordedDigest(manifestFile, lastCall.repoName)))
    => ReturnedString(lastCall, RecordedDigest(manifestFile, lastCall.repoName).s)

C1_Witness ==
  /\ lastCall.called
  /\ lastCall.repoName = chef
  /\ NonEmptyString(RecordedDigest(manifestFile, chef))
  /\ EnvSet(procEnv, chef)
  /\ procEnv[CHEF_IMAGE_TAG] = v2
  /\ ReturnedString(lastCall, digestA)

\* C2: environment fallback.  When the manifest gives no digest for s and
\* <S>_IMAGE_TAG is set to a non-empty value, the call returns that value.
C2_EnvironmentFallback ==
  (/\ lastCall.called
   /\ AbsentOrEmpty(RecordedDigest(manifestFile, lastCall.repoName))
   /\ EnvSet(procEnv, lastCall.repoName))
    => ReturnedString(lastCall, procEnv[TagVarOf(lastCall.repoName)])

C2_Witness ==
  /\ lastCall.called
  /\ lastCall.repoName = prepper
  /\ ~manifestFile.exists
  /\ EnvSet(procEnv, prepper)
  /\ ReturnedString(lastCall, digestC)

\* C3: default fallback.  When the manifest gives no digest for s and
\* <S>_IMAGE_TAG is unset or empty, the call returns "latest".
C3_DefaultFallback ==
  (/\ lastCall.called
   /\ AbsentOrEmpty(RecordedDigest(manifestFile, lastCall.repoName))
   /\ ~EnvSet(procEnv, lastCall.repoName))
    => ReturnedString(lastCall, <<"l","a","t","e","s","t">>)

C3_Witness ==
  /\ lastCall.called
  /\ lastCall.repoName = chef
  /\ ~manifestFile.exists
  /\ CHEF_IMAGE_TAG \in DOMAIN procEnv
  /\ procEnv[CHEF_IMAGE_TAG] = <<>>
  /\ ReturnedString(lastCall, LATEST)

\* C6: malformed manifest tolerance.  When the manifest exists and is not
\* valid JSON, one call does not raise, warns exactly once, the warning
\* naming image-manifest.json, and returns what the environment and default
\* tiers give.
C6_MalformedManifestTolerance ==
  (lastCall.called /\ InvalidJson(manifestFile))
    => /\ ReturnedString(lastCall, TierResult(procEnv, lastCall.repoName))
       /\ Len(lastCall.warnings) = 1
       /\ lastCall.warnings[1].file = MANIFEST_NAME
       /\ lastCall.warnings[1].err = "SyntaxError"

C6_Witness ==
  /\ lastCall.called
  /\ lastCall.repoName = chef
  /\ manifestFile = FileWith(<<Punct("{"), StringTok(chef), Punct(":")>>)
  /\ Len(lastCall.warnings) = 1
  /\ ReturnedString(lastCall, v2)

\* C7: loader totality, as claimed.  Every call returns normally and its
\* result is a string, whatever the manifest file holds.
C7_LoaderTotality ==
  lastCall.called => (~lastCall.threw /\ lastCall.ret.t = "string")

\* The registry printed no digest for a query: nothing at all, or None.
NoImageReported(q) == q.out = <<>> \/ q.out = NONE_TEXT

\* The image tag declarations of .env, in file order.
DeclaredLines ==
  SelectSeq(envFile.lines,
            LAMBDA l : /\ EndsWith(l.var_name, IMAGE_TAG_SUFFIX)
                       /\ Len(l.var_name) > Len(IMAGE_TAG_SUFFIX))

\* The registry's answer to the query of an iteration; none for a value that
\* needed no query.
AnswerOf(r) == IF r.asked = <<>> THEN <<"no query">> ELSE r.asked[1].out

\* The manifest entry the specification asks for declaration l, resolved as
\* the iteration r records.
ExpectedTag(l) == IF WellFormedDigest(l.value) THEN LATEST ELSE l.value

ExpectedDigest(l, r) == IF WellFormedDigest(l.value) THEN l.value ELSE AnswerOf(r)

ExpectedEntry(l, r) ==
  Member(ServiceOf(l.var_name),
         Braces(Member(KEY_TAG, <<StringTok(ExpectedTag(l))>>) \o Comma
                  \o Member(KEY_DIGEST, <<StringTok(ExpectedDigest(l, r))>>)))

RECURSIVE ExpectedEntries(_, _)
ExpectedEntries(ls, rs) ==
  IF ls = <<>> THEN <<>>
  ELSE ExpectedEntry(Head(ls), Head(rs))
         \o (IF Len(ls) = 1 THEN <<>> ELSE Comma)
         \o ExpectedEntries(Tail(ls), Tail(rs))

Succeeded == rpc = "exited" /\ exitStatus = 0

\* C4: all-or-nothing resolution.  Once a registry query of a run has found
\* no image, the run has ended with status 1 and image-manifest.json is as
\* it was when the run started: absent if it was absent, the same content if
\* it was present.
C4_AllOrNothing ==
  (\E i \in DOMAIN queries : NoImageReported(queries[i]))
    => (rpc = "exited" /\ exitStatus = 1 /\ manifestFile = manifestBefore)

C4_Witness ==
  /\ \E i \in DOMAIN queries : NoImageReported(queries[i])
  /\ Len(resolved) >= 1
  /\ resolved[1].asked # <<>>
  /\ exitStatus = 1
  /\ manifestBefore = PriorManifest
  /\ manifestFile = PriorManifest

LoaderCallStep(s) == tagOrDigest[s].t = "notcalled" /\ tagOrDigest'[s].t # "notcalled"

C8_DigestPassThrough ==
  /\ \A i \in DOMAIN resolved :
       WellFormedDigest(resolved[i].value)
         => (resolved[i].digest = resolved[i].value /\ resolved[i].asked = <<>>)
  /\ \A i \in DOMAIN queries : ~WellFormedDigest(queries[i].tag)
  /\ (rpc = "loop" /\ exitStatus = -1)
       => \A i \in 1..(Len(DeclaredLines) - Len(pending)) :
            WellFormedDigest(DeclaredLines[i].value)
              => (i \in DOMAIN resolved /\ resolved[i].value = DeclaredLines[i].value)

C8_Witness ==
  /\ Succeeded
  /\ Len(resolved) = 2
  /\ resolved[2].value = digestA
  /\ resolved[2].digest = digestA
  /\ Len(queries) = 1

\* C9: credential fail-fast.  With unusable credentials a run ends with
\* status 1 without having issued a registry query and without having
\* touched image-manifest.json.
C9_CredentialFailFast ==
  (~credsOK /\ rpc # "idle")
    => /\ rpc \in {"credentials", "exited"}
       /\ rpc = "exited" => exitStatus = 1
       /\ queries = <<>>
       /\ manifestFile = manifestBefore

C9_Witness ==
  /\ ~credsOK
  /\ rpc = "exited"
  /\ exitStatus = 1
  /\ Len(DeclaredLines) = 2
  /\ \E i \in DOMAIN stderr : stderr[i].text = "Error: AWS credentials not configured"

FromThisRun(s, entry) ==
  \E i \in DOMAIN resolved :
    /\ resolved[i].repo = s
    /\ FieldOf(entry, KEY_TAG).t = "string"
    /\ FieldOf(entry, KEY_TAG).s = resolved[i].tag
    /\ FieldOf(entry, KEY_DIGEST).t = "string"
    /\ FieldOf(entry, KEY_DIGEST).s = resolved[i].digest

OnlyThisRun(parsed) ==
  /\ parsed.ok
  /\ parsed.v.t = "object"
  /\ \A s \in DOMAIN parsed.v.m : FromThisRun(s, parsed.v.m[s])

Declares(s) == \E i \in DOMAIN resolved : resolved[i].var_name = TagVarOf(s)

\* C11: wholesale overwrite.  After a run that ended with status 0 the
\* manifest parses to an object whose every entry was written by that run,
\* with the tag and digest that run resolved; a service the run did not
\* declare has no entry, whatever the manifest held before the run.
C11_WholesaleOverwrite ==
  Succeeded
    => /\ OnlyThisRun(JSONparse(manifestFile.content))
       /\ \A s \in Repos :
            ~Declares(s) => RecordedDigest(manifestFile, s).t = "undefined"

C11_Witness ==
  /\ Succeeded
  /\ manifestBefore = PriorManifest
  /\ RecordedDigest(manifestBefore, chef).t = "string"
  /\ Len(resolved) = 1
  /\ resolved[1].repo = prepper
  /\ RecordedDigest(manifestFile, chef).t = "undefined"
  /\ RecordedDigest(manifestFile, prepper).s = digestB

\* The manifest parses to an object that holds entries, none of them for s.
OtherEntriesOnly(parsed, s) ==
  /\ parsed.ok
  /\ parsed.v.t = "object"
  /\ DOMAIN parsed.v.m # {}
  /\ s \notin DOMAIN parsed.v.m

EntriesForOthersOnly(file, s) ==
  file.exists /\ file.readable /\ OtherEntriesOnly(JSONparse(file.content), s)

\* C12: missing-entry fallback.  A call of loadImageReference(s) made while
\* the manifest parses and holds entries, none of them for s, returns what
\* the environment and default tiers give for s and emits no warning.
C12_MissingEntryFallback ==
  (lastCall.called /\ EntriesForOthersOnly(manifestFile, lastCall.repoName))
    => /\ ReturnedString(lastCall, TierResult(procEnv, lastCall.repoName))
       /\ lastCall.warnings = <<>>

C12_Witness ==
  /\ lastCall.called
  /\ lastCall.repoName = prepper
  /\ EntriesForOthersOnly(manifestFile, prepper)
  /\ NonEmptyString(RecordedDigest(manifestFile, chef))
  /\ EnvSet(procEnv, prepper)
  /\ ReturnedString(lastCall, v2)
  /\ lastCall.warnings = <<>>

\* The members of the text of a JSON object, split at the commas of its top
\* level: ts is the text between the outer braces, depth the nesting depth
\* reached, cur the member being read, acc the members read.
Opens(tok) == tok.k = "punct" /\ tok.s \in {<<"{">>, <<"[">>}

Closes(tok) == tok.k = "punct" /\ tok.s \in {<<"}">>, <<"]">>}

RECURSIVE SplitTop(_, _, _, _)
SplitTop(ts, depth, cur, acc) ==
  IF ts = <<>> THEN (IF cur = <<>> THEN acc ELSE Append(acc, cur))
  ELSE IF depth = 0 /\ Head(ts) = Punct(",")
  THEN SplitTop(Tail(ts), depth, <<>>, Append(acc, cur))
  ELSE SplitTop(Tail(ts),
                IF Opens(Head(ts)) THEN depth + 1
                ELSE IF Closes(Head(ts)) THEN depth - 1 ELSE depth,
                Append(cur, Head(ts)), acc)

RECURSIVE JoinMembers(_)
JoinMembers(ms) ==
  IF ms = <<>> THEN <<>>
  ELSE Head(ms) \o (IF Len(ms) = 1 THEN <<>> ELSE Comma) \o JoinMembers(Tail(ms))

\* The text of an object manifest with every member keyed s taken out.
WithoutEntry(ts, s) ==
  Braces(JoinMembers(SelectSeq(SplitTop(SubSeq(ts, 2, Len(ts) - 1), 0, <<>>, <<>>),
                               LAMBDA mem : mem[1] # StringTok(s))))

HoldsEntry(parsed, s) == parsed.ok /\ parsed.v.t = "object" /\ s \in DOMAIN parsed.v.m

\* The manifest holds an entry for s that has no digest field or an empty one.
EntryWithoutDigest(file, s) ==
  /\ file.exists
  /\ file.readable
  /\ HoldsEntry(JSONparse(file.content), s)
  /\ \/ RecordedDigest(file, s).t = "undefined"
     \/ RecordedDigest(file, s).t = "string" /\ RecordedDigest(file, s).s = <<>>

SameOutcome(call, r) ==
  /\ call.threw = r.threw
  /\ call.ret.t = r.ret.t
  /\ call.ret.s = r.ret.s

\* C13: an entry without a digest equals no entry.  A call of
\* loadImageReference(s) made on a manifest whose entry for s has no digest
\* field, or an empty digest, returns what the call returns on the same
\* manifest with the entry for s removed, in the same environment.
C13_EntryWithoutDigest ==
  (lastCall.called /\ EntryWithoutDigest(manifestFile, lastCall.repoName))
    => SameOutcome(lastCall,
         loadImageReference(lastCall.repoName,
                            FileWith(WithoutEntry(manifestFile.content, lastCall.repoName)),
                            procEnv))

C13_Witness ==
  /\ lastCall.called
  /\ lastCall.repoName = prepper
  /\ manifestFile.exists
  /\ manifestFile.readable
  /\ RecordedDigest(manifestFile, prepper).t = "string"
  /\ RecordedDigest(manifestFile, prepper).s = <<>>
  /\ RecordedDigest(manifestFile, chef).t = "string"
  /\ WithoutEntry(manifestFile.content, prepper)
       = Braces(Member(chef, EntryWithDigest(<<StringTok(digestA)>>)))
  /\ ReturnedString(lastCall, digestC)

\* The manifest entry for s holds a digest that is no well-formed digest: a
\* string of another form, or a value that is no string.
InvalidDigest(val) ==
  /\ val.t # "undefined"
  /\ ~(val.t = "string" /\ WellFormedDigest(val.s))

\* C14: invalid digest treated as absent, as claimed.  A call of
\* loadImageReference(s) made while the entry for s holds a digest that does
\* not match sha256: plus 64 lower-case hex characters returns what the
\* environment and default tiers give for s.
C14_InvalidDigestAbsent ==
  (lastCall.called /\ InvalidDigest(RecordedDigest(manifestFile, lastCall.repoName)))
    => ReturnedString(lastCall, TierResult(procEnv, lastCall.repoName))

\* The members the text of the manifest holds at its top level.
MembersOf(file) == SplitTop(SubSeq(file.content, 2, Len(file.content) - 1), 0, <<>>, <<>>)

DistinctKeys(ms) == \A i, j \in DOMAIN ms : ms[i][1] = ms[j][1] => i = j

\* C15: unique manifest entries, as claimed.  In the manifest a run that
\* ended with status 0 has written, no two members have the same key.
C15_UniqueEntries == Succeeded => DistinctKeys(MembersOf(manifestFile))

\* The digest field of a member of the manifest text: the member is its key,
\* a colon and the text of its value.
ParsedDigestField(parsed) ==
  IF parsed.ok THEN FieldOf(parsed.v, KEY_DIGEST) ELSE Undefined

MemberDigest(mem) == ParsedDigestField(JSONparse(SubSeq(mem, 3, Len(mem))))

WellFormedDigestValue(val) == val.t = "string" /\ WellFormedDigest(val.s)

\* C16: digest format invariant.  In the manifest a run that ended with
\* status 0 has written, the digest field of every entry is sha256: followed
\* by 64 lower-case hex characters, for declared digests passed through and
\* for digests the registry reported.
C16_DigestFormat ==
  Succeeded
    => /\ Len(MembersOf(manifestFile)) = Len(resolved)
       /\ \A i \in DOMAIN MembersOf(manifestFile) :
            WellFormedDigestValue(MemberDigest(MembersOf(manifestFile)[i]))

C16_Witness ==
  /\ Succeeded
  /\ Len(resolved) = 2
  /\ resolved[1].asked # <<>>
  /\ resolved[2].asked = <<>>
  /\ Len(MembersOf(manifestFile)) = 2
  /\ MemberDigest(MembersOf(manifestFile)[1]).s = digestC
  /\ MemberDigest(MembersOf(manifestFile)[2]).s = digestA

\* Lower-case service names: the two of the repository, and names with a
\* digit, an underscore, and the suffix itself.
NameSamples ==
  { chef, prepper, <<"a">>, <<"a","p","i","2">>,
    <<"k","i","t","c","h","e","n","_","a","p","i">>,
    <<"x","_","i","m","a","g","e","_","t","a","g">> }

\* The name the Resolver derives from the variable the Loader falls back to
\* for s is s itself.
RoundTrip(s) == var_to_repo(EnvVarName(s)) = s

SameInputsAgain(s) ==
  /\ LoaderCallStep(s)
  /\ prevCall[s].called
  /\ prevCall[s].file = manifestFile
  /\ prevCall[s].env = procEnv

CallStep == dpc \in {"prepper", "chef"} /\ dpc' # dpc

\* C19: loader frame.  A call of loadImageReference leaves the manifest file
\* (content and existence), the environment variables, .env, the registry
\* and the Resolver as they were, on every path; what it adds is the
\* warnings of the call on the console.
C19_LoaderFrame ==
  [][CallStep
       => /\ manifestFile' = manifestFile
          /\ procEnv' = procEnv
          /\ envFile' = envFile
          /\ registry' = registry
          /\ credsOK' = credsOK
          /\ UNCHANGED resolverVars
          /\ console' = console \o lastCall'.warnings]_vars

\* Both calls of a pass have met a manifest that does not parse; each has
\* warned and the file is still there.
C19_Witness ==
  /\ dpc = "done"
  /\ InvalidJson(manifestFile)
  /\ Len(console) = 2
  /\ tagOrDigest[prepper].t = "string"
  /\ tagOrDigest[chef].t = "string"

\* Two digest values agree: the same kind of value with the same text.
AgreeingDigests(d1, d2) ==
  /\ d1.t = d2.t
  /\ d1.s = d2.s
  /\ DOMAIN d1.m = DOMAIN d2.m
  /\ Len(d1.a) = Len(d2.a)

Parseable(file) == file.exists /\ file.readable /\ JSONparse(file.content).ok

\* The manifests and environments that agree with (file, env) on what the
\* result for s may depend on.
AgreeingManifests(file, s) ==
  {f \in ManifestSamples :
     Parseable(f) /\ AgreeingDigests(RecordedDigest(f, s), RecordedDigest(file, s))}

AgreeingEnvs(env, s) ==
  {e \in {ProcEnv(c, p) : c \in ProcEnvValues, p \in ProcEnvValues} :
     /\ (TagVarOf(s) \in DOMAIN e) = (TagVarOf(s) \in DOMAIN env)
     /\ TagVarOf(s) \in DOMAIN e => e[TagVarOf(s)] = env[TagVarOf(s)]}

\* C20: loader non-interference.  A call of loadImageReference(s) on a
\* parseable manifest returns what it returns on every other parseable
\* manifest with the same digest for s (whatever the tag fields, the entries
\* of other services and the other keys) in every environment with the same
\* <S>_IMAGE_TAG.
C20_NonInterference ==
  (lastCall.called /\ Parseable(manifestFile))
    => \A f \in AgreeingManifests(manifestFile, lastCall.repoName) :
         \A e \in AgreeingEnvs(procEnv, lastCall.repoName) :
           SameOutcome(lastCall, loadImageReference(lastCall.repoName, f, e))

C20_Witness ==
  /\ lastCall.called
  /\ lastCall.repoName = chef
  /\ manifestFile = FileWith(AnnotatedManifest)
  /\ FileWith(Braces(Member(chef, EntryWithDigest(<<StringTok(digestA)>>))))
       \in AgreeingManifests(manifestFile, chef)
  /\ ProcEnv(v2, digestC) \in AgreeingEnvs(procEnv, chef)
  /\ PREPPER_IMAGE_TAG \notin DOMAIN procEnv
  /\ ReturnedString(lastCall, digestA)

\* A run is writing image-manifest.json: the file is open and not yet closed.
WritePhase == rpc \in {"echo_open", "printf_entries", "echo_close"}

NamesImage(line, repo, tag) ==
  /\ line.text = "Error: Image not found in ECR"
  /\ line.repo = repo
  /\ line.tag = tag

\* C22: failure diagnostics.  When a registry query of a run has found no
\* image, the last error line of the run names the repository and the tag of
\* that query, and the repository is the service the declaration was for.
C22_FailureDiagnostics ==
  \A i \in DOMAIN queries :
    NoImageReported(queries[i])
      => /\ stderr # <<>>
         /\ NamesImage(stderr[Len(stderr)], queries[i].repo, queries[i].tag)
         /\ \E l \in DOMAIN DeclaredLines :
              /\ DeclaredLines[l].value = queries[i].tag
              /\ ServiceOf(DeclaredLines[l].var_name) = queries[i].repo

C22_Witness ==
  /\ rpc = "exited"
  /\ exitStatus = 1
  /\ Len(resolved) = 1
  /\ Len(queries) = 2
  /\ NoImageReported(queries[2])
  /\ NamesImage(stderr[Len(stderr)], prepper, v1)

\* C23: manifest immutability within a configuration pass, as claimed.  When
\* a pass has made its two calls, the call for prepper and the call for chef
\* have read the same manifest: the same existence and the same content.
C23_SameManifestInPass ==
  (dpc = "done" /\ prevCall[prepper].called /\ prevCall[chef].called)
    => prevCall[prepper].file = prevCall[chef].file

\* C26: no digest from a partial write.  While a run is between the
\* truncation of the manifest and its closing brace, the file does not parse,
\* and a call of loadImageReference made then warns and returns what the
\* environment/default tiers give, never a digest out of the file.
C26_NoDigestFromPartialWrite ==
  [][\A s \in Repos :
       (LoaderCallStep(s) /\ WritePhase)
         => /\ ~Parseable(manifestFile)
            /\ tagOrDigest'[s].t = EnvFallback(procEnv, s).t
            /\ tagOrDigest'[s].s = EnvFallback(procEnv, s).s
            /\ Len(console') = Len(console) + 1]_vars

\* The call for chef read the manifest while the run was writing it, with a
\* digest for chef in the entries on their way to the file.
C26_Witness ==
  /\ WritePhase
  /\ dpc = "done"
  /\ lastCall.called
  /\ lastCall.repoName = chef
  /\ lastCall.warnings # <<>>
  /\ \E i \in DOMAIN resolved : resolved[i].repo = chef
  /\ tagOrDigest[chef].s = v2
  /\ manifestBefore = AbsentFile

\* C27: empty declaration set.  A run with usable credentials over an .env
\* that declares no image tag ends with status 0 and leaves the manifest an
\* empty JSON object, whatever an earlier run had recorded; every service then
\* gets what the environment/default tiers give, without a warning.
C27_EmptyDeclarationSet ==
  (rpc = "exited" /\ envFile.exists /\ credsOK /\ DeclaredLines = <<>>)
    => /\ exitStatus = 0
       /\ manifestFile = FileWith(<<Punct("{"), Punct("}")>>)
       /\ JSONparse(manifestFile.content).ok
       /\ \A s \in Repos :
            /\ RecordedDigest(manifestFile, s).t = "undefined"
            /\ loadImageReference(s, manifestFile, procEnv).ret.s
                 = EnvFallback(procEnv, s).s
            /\ loadImageReference(s, manifestFile, procEnv).warnings = <<>>

\* The earlier manifest held a digest for chef; the run over an .env without
\* declarations has replaced it and the pass received the environment value.
C27_Witness ==
  /\ Succeeded
  /\ envFile.exists
  /\ DeclaredLines = <<>>
  /\ manifestBefore = PriorManifest
  /\ manifestFile = FileWith(<<Punct("{"), Punct("}")>>)
  /\ dpc = "done"
  /\ tagOrDigest[chef].s = v2
  /\ tagOrDigest[prepper].s = LATEST

\* The context gives the key a value that is not the empty string.
ContextHas(key) == key \in DOMAIN context /\ context[key] # <<>>

Functions == {r \in resources : r.type = "AWS::Lambda::Function"}

RoutesDefined == {r \in resources : r.type = "Route"}

\* ECR reports a successful push of an image to one of the two repositories.
SuccessfulPush(e) ==
  /\ e.source = "aws.ecr"
  /\ e.detailType = "ECR Image Action"
  /\ e.actionType = "PUSH"
  /\ e.result = "SUCCESS"
  /\ e.repositoryName \in {"chef", "prepper"}

\* C24: deployment trigger.  CicdStack defines two rules and both target the
\* Kitchen-Deploy pipeline alone; an event that reports a successful push to
\* chef or to prepper starts Kitchen-Deploy, once, and every other event
\* starts nothing.
C24_DeploymentTrigger ==
  /\ cicd.state = "defined"
       => /\ Cardinality(cicd.rules) = 2
          /\ \A r \in cicd.rules : r.targets = {"Kitchen-Deploy"}
  /\ \A i \in DOMAIN delivered :
       IF SuccessfulPush(delivered[i].event)
       THEN /\ Cardinality(delivered[i].started) = 1
            /\ \A x \in delivered[i].started : x.pipeline = "Kitchen-Deploy"
       ELSE delivered[i].started = {}

\* A push to prepper has started the pipeline through the prepper rule, and a
\* failed push to chef after it has started nothing.
C24_Witness ==
  /\ Len(delivered) = 2
  /\ SuccessfulPush(delivered[1].event)
  /\ delivered[1].event.repositoryName = "prepper"
  /\ delivered[1].started =
       {[rule |-> "Kitchen-Prepper-ECR-Push-Trigger", pipeline |-> "Kitchen-Deploy"]}
  /\ delivered[2].event.repositoryName = "chef"
  /\ delivered[2].event.actionType = "PUSH"
  /\ delivered[2].event.result = "FAILURE"
  /\ delivered[2].started = {}

\* The context and the environment of the test: the two storage names only,
\* both image tags in the environment, no manifest.
TestContext ==
  /\ DOMAIN context = {s3CookbooksBucket, dynamoCookbooksTable}
  /\ \A k \in DOMAIN context : context[k] # <<>>

EnvOnly ==
  /\ ~manifestFile.exists
  /\ CHEF_IMAGE_TAG \in DOMAIN procEnv
  /\ PREPPER_IMAGE_TAG \in DOMAIN procEnv

TwoFunctions ==
  /\ Cardinality(Functions) = 2
  /\ {r.name : r \in Functions} = {"prepper", "chef"}

SharedTag ==
  IF CHEF_TAG \in DOMAIN procEnv /\ procEnv[CHEF_TAG] # <<>> THEN procEnv[CHEF_TAG]
  ELSE IF PREPPER_TAG \in DOMAIN procEnv /\ procEnv[PREPPER_TAG] # <<>>
       THEN procEnv[PREPPER_TAG]
       ELSE LATEST

\* C28: shared build tag.  The two build projects CicdStack defines carry the
\* same IMAGE_TAG: CHEF_TAG when it is not empty, else PREPPER_TAG when it is
\* not empty, else "latest".
C28_SharedBuildTag ==
  cicd.state = "defined"
    => /\ {p.projectName : p \in cicd.projects} = {"Chef-ECR-Deploy", "Prepper-ECR-Deploy"}
       /\ \A p \in cicd.projects :
            /\ p.IMAGE_TAG.t = "string"
            /\ p.IMAGE_TAG.s = SharedTag

\* Both variables are set and the Prepper build has received CHEF_TAG.
C28_Witness ==
  /\ cicd.state = "defined"
  /\ CHEF_TAG \in DOMAIN procEnv
  /\ PREPPER_TAG \in DOMAIN procEnv
  /\ procEnv[CHEF_TAG] = v1
  /\ procEnv[PREPPER_TAG] = v2
  /\ \E p \in cicd.projects : p.projectName = "Prepper-ECR-Deploy" /\ p.IMAGE_TAG.s = v1

AuthenticatedRoutes ==
  { [method |-> "POST", path |-> "/recipe/load"],
    [method |-> "POST", path |-> "/recipe/{urlHash}/improve"],
    [method |-> "GET", path |-> "/recipe/{urlHash}"],
    [method |-> "PUT", path |-> "/recipe/{urlHash}"],
    [method |-> "DELETE", path |-> "/recipe/{urlHash}"],
    [method |-> "GET", path |-> "/recipes"] }

OpenRoutes ==
  { [method |-> "GET", path |-> "/fetch"],
    [method |-> "GET", path |-> "/health"] }

MethodAndPath(r) == [method |-> r.method, path |-> r.name]

====
